---- MODULE Spec2Model ----
(***************************************************************************)
(* Model of the OLE2 compound-file reader of excelibur (converter.go).     *)
(*                                                                         *)
(* The input is a byte buffer.  XLSReader.ConvertFile checks the magic     *)
(* prefix, parseOLE2 decodes the header, assembles the FAT, slices the     *)
(* sector store, walks the directory chain, decodes the 128-byte directory *)
(* records, looks for the root storage, reads the mini FAT and the mini    *)
(* stream; ole2.getStream resolves a named stream.  readChain is modelled  *)
(* one loop iteration per step, so that a walk that never returns is a     *)
(* behaviour of the model.                                                 *)
(*                                                                         *)
(* Unsigned integers read from the buffer (uint16, uint32, uint64) are     *)
(* kept as their little-endian byte sequences; they are turned into an     *)
(* index only where the code has compared them with a length first.        *)
(***************************************************************************)
EXTENDS Integers, Sequences, FiniteSets, TLC

\* ------------------------------------------------------------------------
\* Program constants
\* ------------------------------------------------------------------------
SECTOR_SIZE == 512
DIFAT_SLOTS == 109
DIR_ENTRY_SIZE == 128
NAME_UNITS == 32

OLE2_SIGNATURE == <<208, 207, 17, 224, 161, 177, 26, 225>>
END_OF_CHAIN == <<254, 255, 255, 255>>
FREE == <<255, 255, 255, 255>>

\* ------------------------------------------------------------------------
\* Byte-level helpers
\* ------------------------------------------------------------------------
Min(a, b) == IF a < b THEN a ELSE b

\* Go's s[lo:hi] on a 0-based slice, as a 1-based sequence
Slice(s, lo, hi) == SubSeq(s, lo + 1, hi)

\* bytes.HasPrefix
HasPrefix(s, p) == Len(s) >= Len(p) /\ SubSeq(s, 1, Len(p)) = p

\* the value of a little-endian unsigned integer is below 2^24
Fits(bs) == \A i \in 4..Len(bs) : bs[i] = 0

\* the value of a little-endian unsigned integer that Fits
ToInt(bs) == bs[1] + 256 * bs[2] + (IF Len(bs) >= 3 THEN 65536 * bs[3] ELSE 0)

\* int(x) >= n, for a length n below 2^24
GeLen(bs, n) == ~Fits(bs) \/ ToInt(bs) >= n

\* a < b for two little-endian unsigned integers of the same width
RECURSIVE ULess(_, _)
ULess(a, b) ==
    IF Len(a) = 0 THEN FALSE
    ELSE LET n == Len(a) IN
         IF a[n] # b[n] THEN a[n] < b[n]
         ELSE ULess(SubSeq(a, 1, n - 1), SubSeq(b, 1, n - 1))

\* uint64(x) of a uint32
Uint64(w) == w \o <<0, 0, 0, 0>>

\* 1 << shift, for the shifts the inputs use
RECURSIVE Pow2(_)
Pow2(n) == IF n = 0 THEN 1 ELSE 2 * Pow2(n - 1)

Shl1(shift) == IF Fits(shift) /\ ToInt(shift) < 24 THEN Pow2(ToInt(shift)) ELSE 0

\* binary.Read into a []uint32 of n entries: n little-endian words
ReadU32s(bytes, n) == [k \in 1..n |-> SubSeq(bytes, 4 * (k - 1) + 1, 4 * k)]

\* the concatenation of a sequence of sequences (halving, to stay shallow)
RECURSIVE Concat(_)
Concat(ss) ==
    IF Len(ss) = 0 THEN <<>>
    ELSE IF Len(ss) = 1 THEN ss[1]
    ELSE LET h == Len(ss) \div 2 IN
         Concat(SubSeq(ss, 1, h)) \o Concat(SubSeq(ss, h + 1, Len(ss)))

\* ------------------------------------------------------------------------
\* Input buffers.  A buffer is the serialisation, in the layout the reader
\* decodes, of a small container: 128-byte sectors, 16-byte mini-sectors,
\* sector 0 and 8 hold FAT entries, sectors 1..3 one directory record each,
\* sector 4 the mini FAT, sector 5 the mini-stream, sectors 6 and 7 data.
\* Every knob has a list of options, the first being the well-formed one;
\* the inputs are the buffers in which at most two knobs leave the default.
\* In the option lists -1 stands for FREE, -2 for END_OF_CHAIN and -3 for
\* the FAT-sector marker.
\* ------------------------------------------------------------------------
\* the k-byte little-endian encoding of n < 2^24
LE(n, k) == [i \in 1..k |-> IF i <= 3 THEN (n \div Pow2(8 * (i - 1))) % 256 ELSE 0]

Enc32(x) ==
    IF x = -1 THEN FREE
    ELSE IF x = -2 THEN END_OF_CHAIN
    ELSE IF x = -3 THEN <<253, 255, 255, 255>>
    ELSE LE(x, 4)

Zeros(n) == [i \in 1..n |-> 0]

N_RootEntry == <<82, 111, 111, 116, 32, 69, 110, 116, 114, 121>>
N_Workbook == <<87, 111, 114, 107, 98, 111, 111, 107>>
N_WORKBOOK == <<87, 79, 82, 75, 66, 79, 79, 75>>
N_Book == <<66, 111, 111, 107>>
N_bOOK == <<98, 79, 79, 75>>
N_Other == <<79, 116, 104, 101, 114>>
N_R == <<82>>

\* one directory record in the field order parseOLE2 reads it
DirRec(e) ==
    Concat([i \in 1..Len(e.name) |-> LE(e.name[i], 2)]
           \o [i \in 1..(NAME_UNITS - Len(e.name)) |-> <<0, 0>>])
    \o <<e.type, 1>> \o FREE \o FREE \o FREE \o Zeros(16) \o Zeros(4)
    \o Zeros(8) \o Zeros(8) \o Enc32(e.start) \o LE(e.size, 8) \o <<0, 0>>

Entry(n, t, st, sz) == [name |-> n, type |-> t, start |-> st, size |-> sz]

Words(ws, n) == Concat([i \in 1..n |-> Enc32(IF i <= Len(ws) THEN ws[i] ELSE -1)])

DataSector(k, n) == [i \in 1..n |-> ((37 * k + i) % 251) + 1]

Knobs ==
    [len |-> <<-1, 0, 5, 8, 300, 511, 512, 600, 1600>>,
     sig |-> <<TRUE, FALSE>>,
     difat |-> << <<0>>, <<-1, 0>>, <<0, -1, 8>>, <<8, -1, 0>>, <<0, 40>> >>,
     fat |-> << <<-3, 2, 3, -2, -2, -2, 7, -2, -3>>,
                <<-3, 2, 3, -2, -2, -2, 7, 6, -3>>,
                <<-3, 2, 3, -2, -2, -2, 6, -2, -3>>,
                <<-3, 2, 3, -2, -2, -2, 99, -2, -3>>,
                <<-3, 2, 3, -2, -2, -2, -2, 6, -3>>,
                <<-3, 2, 3, -2, -2, -2, 7, 20, -3>>,
                <<-3, 2, 1, -2, -2, -2, 7, -2, -3>>,
                <<-3, 2, 20, -2, -2, -2, 7, -2, -3>>,
                <<-3, 2, 3, -2, 20, -2, 7, -2, -3>>,
                <<-3, 2, 3, -2, -2, 20, 7, -2, -3>>,
                <<-3, 2, 3, -2, -2, 6, 7, -2, -3>>,
                <<-3, 2, 99, -2, -2, -2, 7, -2, -3>>,
                <<-3, 2, 3, -2, 99, -2, 7, -2, -3>> >>,
     root |-> << Entry(N_RootEntry, 5, 5, 48), Entry(N_RootEntry, 5, 5, 40),
                 Entry(N_RootEntry, 1, 5, 48), Entry(N_R, 5, 5, 48),
                 Entry(N_Workbook, 5, 5, 48), Entry(N_RootEntry, 5, 5, 200),
                 Entry(N_RootEntry, 5, -2, 0) >>,
     e1 |-> << Entry(N_Workbook, 2, 0, 20), Entry(N_Workbook, 2, 0, 0),
               Entry(N_Workbook, 2, 1, 39), Entry(N_Workbook, 2, 6, 40),
               Entry(N_Workbook, 0, 6, 130), Entry(N_WORKBOOK, 2, 2, 16),
               Entry(N_Book, 0, 0, 8), Entry(N_Other, 2, 7, 256),
               Entry(N_Workbook, 2, -2, 0), Entry(N_Workbook, 1, 0, 0),
               Entry(N_Other, 2, 2, 5) >>,
     e2 |-> << Entry(N_Book, 2, 6, 200), Entry(N_Book, 2, 6, 256),
               Entry(N_Workbook, 2, 7, 128), Entry(N_bOOK, 2, 6, 129),
               Entry(N_Workbook, 2, 6, 300), Entry(N_Book, 2, 0, 33),
               Entry(N_Book, 2, 7, 41), Entry(N_WORKBOOK, 0, 1, 17) >>,
     minifat |-> << <<1, -2, -2>>, <<1, 0, -2>>, <<1, 2, -2>>, <<0, 2, 1>>,
                    <<50, -2, -2>>, <<2, -2, -2>> >>,
     nmf |-> <<1, 0>>,
     cutoff |-> <<40, 130, 0>>]

KnobNames == DOMAIN Knobs

Base == [k \in KnobNames |-> 1]

Choices ==
    UNION { { [Base EXCEPT ![a] = i, ![b] = j] :
                i \in 1..Len(Knobs[a]), j \in 1..Len(Knobs[b]) } :
            <<a, b>> \in KnobNames \X KnobNames }

MkHeader(c) ==
    (IF Knobs.sig[c.sig] THEN OLE2_SIGNATURE ELSE <<208, 207, 17, 224, 0, 0, 0, 0>>)
    \o Zeros(16) \o LE(62, 2) \o LE(3, 2) \o <<254, 255>>
    \o LE(7, 2) \o LE(4, 2) \o Zeros(6)
    \o LE(0, 4) \o LE(1, 4) \o LE(1, 4) \o LE(0, 4) \o LE(Knobs.cutoff[c.cutoff], 4)
    \o LE(4, 4) \o LE(Knobs.nmf[c.nmf], 4) \o END_OF_CHAIN \o LE(0, 4)
    \o Words(Knobs.difat[c.difat], DIFAT_SLOTS)

MkFile(c) ==
    LET full == MkHeader(c)
                \o Words(Knobs.fat[c.fat], 32)
                \o DirRec(Knobs.root[c.root])
                \o DirRec(Knobs.e1[c.e1])
                \o DirRec(Knobs.e2[c.e2])
                \o Words(Knobs.minifat[c.minifat], 32)
                \o DataSector(5, 128) \o DataSector(6, 128) \o DataSector(7, 128)
                \o Words(<<-2, 5, 6>>, 32)
        n == Knobs.len[c.len]
    IN  IF n < 0 THEN full ELSE SubSeq(full, 1, n)

Inputs == { MkFile(c) : c \in Choices }

\* the names getStream is asked for
Names == {N_Workbook, N_WORKBOOK, N_Book, N_bOOK, N_Other, N_R}

\* ------------------------------------------------------------------------
\* State
\* ------------------------------------------------------------------------
VARIABLES
    data,         \* the buffer os.ReadFile returned
    pc,           \* the statement the program is at
    ole,          \* the ole2 structure parseOLE2 fills
    rootStorage,  \* parseOLE2's local: index of the root entry, 0 for nil
    table,        \* readChain's fat argument
    start,        \* readChain's startSector argument
    ret,          \* where the running readChain returns to
    chain,        \* readChain's local chain
    nextSector,   \* readChain's local nextSector
    name,         \* getStream's argument
    caller,       \* who called getStream
    streamEntry,  \* getStream's local: index of the entry, 0 for nil
    out,          \* the bytes getStream returned
    err           \* the error returned, "" for nil

vars == <<data, pc, ole, rootStorage, table, start, ret, chain, nextSector,
          name, caller, streamEntry, out, err>>

\* a walk longer than this is cut off (only a cyclic walk gets there)
MaxChain == 5

Field(buf, off, n) == SubSeq(buf, off + 1, off + n)

\* binary.Read of the packed little-endian Ole2Header
DecodeHeader(buf) ==
    [Signature        |-> Field(buf, 0, 8),
     CLSID            |-> Field(buf, 8, 16),
     MinorVersion     |-> Field(buf, 24, 2),
     DllVersion       |-> Field(buf, 26, 2),
     ByteOrder        |-> Field(buf, 28, 2),
     SectorShift      |-> Field(buf, 30, 2),
     MiniSectorShift  |-> Field(buf, 32, 2),
     NumDirSectors    |-> Field(buf, 40, 4),
     NumFATSectors    |-> Field(buf, 44, 4),
     FirstDirSector   |-> Field(buf, 48, 4),
     TransactionSig   |-> Field(buf, 52, 4),
     MiniStreamCutoff |-> Field(buf, 56, 4),
     FirstMiniFATSec  |-> Field(buf, 60, 4),
     NumMiniFATSecs   |-> Field(buf, 64, 4),
     FirstDIFATSec    |-> Field(buf, 68, 4),
     NumDIFATSecs     |-> Field(buf, 72, 4),
     DIFAT            |-> [i \in 1..DIFAT_SLOTS |-> Field(buf, 76 + 4 * (i - 1), 4)]]

ZeroHeader == DecodeHeader(Zeros(SECTOR_SIZE))

\* &ole2{}
EmptyOle ==
    [header |-> ZeroHeader, sectorSize |-> 0, miniSectorSize |-> 0,
     dirEntries |-> <<>>, fat |-> <<>>, miniFat |-> <<>>,
     sectors |-> <<>>, miniSectors |-> <<>>]

Init ==
    /\ data \in Inputs
    /\ pc = "ConvertFile"
    /\ ole = EmptyOle
    /\ rootStorage = 0
    /\ table = <<>>
    /\ start = <<0, 0, 0, 0>>
    /\ ret = ""
    /\ chain = <<>>
    /\ nextSector = <<0, 0, 0, 0>>
    /\ name = <<>>
    /\ caller = ""
    /\ streamEntry = 0
    /\ out = <<>>
    /\ err = ""

\* return err
Fail(e) == pc' = "done" /\ err' = e

\* a run-time panic ends the program
Panic == pc' = "panic" /\ err' = "panic"

\* ------------------------------------------------------------------------
\* XLSReader.ConvertFile, up to the call of parseOLE2
\* ------------------------------------------------------------------------
CheckSignature ==
    /\ pc = "ConvertFile"
    /\ IF ~HasPrefix(data, OLE2_SIGNATURE)
       THEN Fail("signature not found")
       ELSE pc' = "parseOLE2" /\ err' = err
    /\ UNCHANGED <<data, ole, rootStorage, table, start, ret, chain, nextSector,
                   name, caller, streamEntry, out>>

\* ------------------------------------------------------------------------
\* parseOLE2
\* ------------------------------------------------------------------------
ParseHeader ==
    /\ pc = "parseOLE2"
    /\ IF Len(data) < SECTOR_SIZE
       THEN Fail("file too small") /\ ole' = ole
       ELSE LET header == DecodeHeader(data) IN
            IF header.Signature # OLE2_SIGNATURE
            THEN Fail("invalid OLE2 signature")
                 /\ ole' = [ole EXCEPT !.header = header]
            ELSE /\ ole' = [ole EXCEPT !.header = header,
                                       !.sectorSize = Shl1(header.SectorShift),
                                       !.miniSectorSize = Shl1(header.MiniSectorShift)]
                 /\ pc' = "readFAT"
                 /\ err' = err
    /\ UNCHANGED <<data, rootStorage, table, start, ret, chain, nextSector,
                   name, caller, streamEntry, out>>

\* getSector: the slice data[offset:end], or a panic when offset > end
GetSector(buf, sectorId, sectorSize) ==
    LET offset == 512 + sectorId * sectorSize
        end == Min(offset + sectorSize, Len(buf))
    IN  IF offset > end
        THEN [ok |-> FALSE, bytes |-> <<>>]
        ELSE [ok |-> TRUE, bytes |-> Slice(buf, offset, end)]

\* getSector(data, int(header.DIFAT[i]), sectorSize)
GetSectorU32(buf, id, sectorSize) ==
    IF ~Fits(id) \/ ToInt(id) > Len(buf)
    THEN [ok |-> FALSE, bytes |-> <<>>]
    ELSE GetSector(buf, ToInt(id), sectorSize)

\* the slots the loop over the 109 inline DIFAT entries does not skip
NotFree(w) == w # FREE

\* faulty variant: the loop ends at the first FREE slot (break for continue)
RECURSIVE FatSlots_StopAtFree(_)
FatSlots_StopAtFree(difat) ==
    IF Len(difat) = 0 \/ Head(difat) = FREE THEN <<>>
    ELSE <<Head(difat)>> \o FatSlots_StopAtFree(Tail(difat))

FatSlots(difat) == SelectSeq(SubSeq(difat, 1, DIFAT_SLOTS), NotFree)

\* the body of that loop, run on the slots that are not skipped
RECURSIVE FatLoop(_, _, _, _)
FatLoop(buf, slots, sectorSize, fat) ==
    IF Len(slots) = 0 THEN [fat |-> fat, err |-> ""]
    ELSE LET sectorData == GetSectorU32(buf, Head(slots), sectorSize)
             n == sectorSize \div 4
         IN  IF ~sectorData.ok THEN [fat |-> fat, err |-> "panic"]
             ELSE IF Len(sectorData.bytes) < 4 * n
             THEN [fat |-> fat, err |-> "error reading FAT sector"]
             ELSE FatLoop(buf, Tail(slots), sectorSize,
                          fat \o ReadU32s(sectorData.bytes, n))

ReadFAT ==
    /\ pc = "readFAT"
    /\ LET r == FatLoop(data, FatSlots(ole.header.DIFAT), ole.sectorSize, <<>>) IN
       /\ ole' = [ole EXCEPT !.fat = r.fat]
       /\ IF r.err = "panic" THEN Panic
          ELSE IF r.err # "" THEN Fail(r.err)
          ELSE pc' = "parseSectors" /\ err' = err
    /\ UNCHANGED <<data, rootStorage, table, start, ret, chain, nextSector,
                   name, caller, streamEntry, out>>

\* the sector store, then the call readChain(ole.fat, FirstDirSector)
ParseSectors ==
    /\ pc = "parseSectors"
    /\ IF ole.sectorSize = 0
       THEN Panic /\ UNCHANGED <<ole, table, start, ret>>
       ELSE LET numSectors == (Len(data) - 512) \div ole.sectorSize IN
            /\ ole' = [ole EXCEPT !.sectors =
                          [i \in 1..numSectors |->
                              GetSector(data, i - 1, ole.sectorSize).bytes]]
            /\ table' = ole.fat
            /\ start' = ole.header.FirstDirSector
            /\ ret' = "parseDirectory"
            /\ pc' = "readChain"
            /\ err' = err
    /\ UNCHANGED <<data, rootStorage, chain, nextSector,
                   name, caller, streamEntry, out>>

\* ------------------------------------------------------------------------
\* readChain
\* ------------------------------------------------------------------------
ReadChainStart ==
    /\ pc = "readChain"
    /\ IF GeLen(start, Len(table)) \/ start = END_OF_CHAIN
       THEN chain' = <<>> /\ nextSector' = nextSector /\ pc' = ret
       ELSE /\ chain' = <<ToInt(start)>>
            /\ nextSector' = table[ToInt(start) + 1]
            /\ pc' = "readChainLoop"
    /\ UNCHANGED <<data, ole, rootStorage, table, start, ret,
                   name, caller, streamEntry, out, err>>

\* faulty variant: an out-of-range entry is appended before the loop ends
ReadChainLoop_AppendsOutOfRange ==
    /\ pc = "readChainLoop"
    /\ Len(chain) <= MaxChain
    /\ IF nextSector = END_OF_CHAIN
       THEN pc' = ret /\ UNCHANGED <<chain, nextSector>>
       ELSE IF GeLen(nextSector, Len(table))
       THEN chain' = Append(chain, ToInt(nextSector)) /\ pc' = ret
            /\ UNCHANGED nextSector
       ELSE /\ chain' = Append(chain, ToInt(nextSector))
            /\ nextSector' = table[ToInt(nextSector) + 1]
            /\ pc' = pc
    /\ UNCHANGED <<data, ole, rootStorage, table, start, ret,
                   name, caller, streamEntry, out, err>>

ReadChainLoop ==
    /\ pc = "readChainLoop"
    /\ Len(chain) <= MaxChain
    /\ IF nextSector = END_OF_CHAIN \/ GeLen(nextSector, Len(table))
       THEN pc' = ret /\ UNCHANGED <<chain, nextSector>>
       ELSE /\ chain' = Append(chain, ToInt(nextSector))
            /\ nextSector' = table[ToInt(nextSector) + 1]
            /\ pc' = pc
    /\ UNCHANGED <<data, ole, rootStorage, table, start, ret,
                   name, caller, streamEntry, out, err>>

\* ------------------------------------------------------------------------
\* parseOLE2: the directory
\* ------------------------------------------------------------------------
\* the loop that appends store[sectorId] for every id of the chain; it
\* stops at the first id past the store (ok = FALSE), where the code either
\* returns an error or, having no check, panics on the index
RECURSIVE Gather(_, _, _)
Gather(store, ids, acc) ==
    IF Len(ids) = 0 THEN [ok |-> TRUE, bytes |-> acc]
    ELSE IF Head(ids) >= Len(store) THEN [ok |-> FALSE, bytes |-> acc]
    ELSE Gather(store, Tail(ids), acc \o store[Head(ids) + 1])

\* rune(wchar) written with WriteRune: a surrogate becomes U+FFFD
Rune(wchar) == IF wchar >= 55296 /\ wchar <= 57343 THEN 65533 ELSE wchar

\* the UTF-16 name, cut at the first zero code unit
RECURSIVE DecodeName(_, _)
DecodeName(nameRaw, j) ==
    IF j >= NAME_UNITS THEN <<>>
    ELSE LET wchar == nameRaw[2 * j + 1] + 256 * nameRaw[2 * j + 2] IN
         IF wchar = 0 THEN <<>>
         ELSE <<Rune(wchar)>> \o DecodeName(nameRaw, j + 1)

\* entry.name == "Root Entry"
IsRootStorage(entry) == entry.name = N_RootEntry

\* one 128-byte record, read field after field
DecodeEntry(rec) ==
    LET entry == [name        |-> DecodeName(Field(rec, 0, 64), 0),
                  entryType   |-> rec[65],
                  colorFlag   |-> rec[66],
                  leftSibID   |-> Field(rec, 66, 4),
                  rightSibID  |-> Field(rec, 70, 4),
                  childID     |-> Field(rec, 74, 4),
                  startSector |-> Field(rec, 114, 4),
                  streamSize  |-> Field(rec, 118, 8)]
    IN  [name          |-> entry.name,
         entryType     |-> entry.entryType,
         colorFlag     |-> entry.colorFlag,
         leftSibID     |-> entry.leftSibID,
         rightSibID    |-> entry.rightSibID,
         childID       |-> entry.childID,
         startSector   |-> entry.startSector,
         streamSize    |-> entry.streamSize,
         isDirectory   |-> entry.entryType = 1,
         isRootStorage |-> IsRootStorage(entry)]

\* every whole 128-byte record of dirData, in order
DecodeEntries(dirData) ==
    [k \in 1..(Len(dirData) \div DIR_ENTRY_SIZE) |->
        DecodeEntry(Slice(dirData, (k - 1) * DIR_ENTRY_SIZE, k * DIR_ENTRY_SIZE))]

ParseDirectory ==
    /\ pc = "parseDirectory"
    /\ LET dirData == Gather(ole.sectors, chain, <<>>) IN
       IF ~dirData.ok
       THEN Fail("invalid directory sector ID") /\ ole' = ole
       ELSE /\ ole' = [ole EXCEPT !.dirEntries = DecodeEntries(dirData.bytes)]
            /\ pc' = "findRoot"
            /\ err' = err
    /\ UNCHANGED <<data, rootStorage, table, start, ret, chain, nextSector,
                   name, caller, streamEntry, out>>

\* the index a "for i := range ... if flag { break }" loop stops at, 0 when
\* it runs to the end
FirstIndex(flags) ==
    IF \E i \in 1..Len(flags) : flags[i]
    THEN CHOOSE i \in 1..Len(flags) : flags[i] /\ \A j \in 1..(i - 1) : ~flags[j]
    ELSE 0

\* the search for the root storage, then the first readChain it leads to
FindRootStorage ==
    /\ pc = "findRoot"
    /\ LET root == FirstIndex([i \in 1..Len(ole.dirEntries) |->
                                 ole.dirEntries[i].isRootStorage]) IN
       /\ rootStorage' = root
       /\ IF root = 0
          THEN Fail("root storage not found") /\ UNCHANGED <<table, start, ret>>
          ELSE /\ table' = ole.fat
               /\ pc' = "readChain"
               /\ err' = err
               /\ IF ole.header.NumMiniFATSecs # <<0, 0, 0, 0>>
                  THEN start' = ole.header.FirstMiniFATSec /\ ret' = "readMiniFAT"
                  ELSE start' = ole.dirEntries[root].startSector
                       /\ ret' = "readMiniStream"
    /\ UNCHANGED <<data, ole, chain, nextSector, name, caller, streamEntry, out>>

\* ------------------------------------------------------------------------
\* parseOLE2: the mini FAT and the mini-stream
\* ------------------------------------------------------------------------
ReadMiniFAT ==
    /\ pc = "readMiniFAT"
    /\ LET miniFatData == Gather(ole.sectors, chain, <<>>) IN
       IF ~miniFatData.ok
       THEN Panic /\ UNCHANGED <<ole, table, start, ret>>
       ELSE /\ ole' = [ole EXCEPT !.miniFat =
                          ReadU32s(miniFatData.bytes, Len(miniFatData.bytes) \div 4)]
            /\ table' = ole.fat
            /\ start' = ole.dirEntries[rootStorage].startSector
            /\ ret' = "readMiniStream"
            /\ pc' = "readChain"
            /\ err' = err
    /\ UNCHANGED <<data, rootStorage, chain, nextSector,
                   name, caller, streamEntry, out>>

\* the split of the mini-stream into mini-sectors
SplitMiniSectors(miniStreamData, miniSectorSize) ==
    LET numMiniSectors == Len(miniStreamData) \div miniSectorSize IN
    [i \in 1..numMiniSectors |->
        Slice(miniStreamData, (i - 1) * miniSectorSize,
              Min(i * miniSectorSize, Len(miniStreamData)))]

\* miniStreamData[:int(streamSize)] when int(streamSize) < len(miniStreamData)
TruncateTo(miniStreamData, streamSize) ==
    IF Fits(streamSize) /\ ToInt(streamSize) < Len(miniStreamData)
    THEN SubSeq(miniStreamData, 1, ToInt(streamSize))
    ELSE miniStreamData

ReadMiniStream ==
    /\ pc = "readMiniStream"
    /\ LET gathered == Gather(ole.sectors, chain, <<>>)
           size == ole.dirEntries[rootStorage].streamSize
       IN  IF ~gathered.ok \/ size[8] >= 128 \/ ole.miniSectorSize = 0
           THEN Panic /\ ole' = ole
           ELSE /\ ole' = [ole EXCEPT !.miniSectors =
                              SplitMiniSectors(TruncateTo(gathered.bytes, size),
                                               ole.miniSectorSize)]
                /\ pc' = "parsed"
                /\ err' = err
    /\ UNCHANGED <<data, rootStorage, table, start, ret, chain, nextSector,
                   name, caller, streamEntry, out>>

\* ------------------------------------------------------------------------
\* ole2.getStream and its callers
\* ------------------------------------------------------------------------
\* ConvertFile asks for "Workbook" first
GetWorkbook ==
    /\ pc = "parsed"
    /\ name' = N_Workbook
    /\ caller' = "ConvertFile"
    /\ pc' = "getStream"
    /\ UNCHANGED <<data, ole, rootStorage, table, start, ret, chain, nextSector,
                   streamEntry, out, err>>

\* any other caller of the method, with a name of its choice
Resolve(n) ==
    /\ pc = "parsed"
    /\ name' = n
    /\ caller' = "direct"
    /\ pc' = "getStream"
    /\ UNCHANGED <<data, ole, rootStorage, table, start, ret, chain, nextSector,
                   streamEntry, out, err>>

\* simple case folding of a rune (the ASCII letters)
FoldRune(r) == IF r >= 65 /\ r <= 90 THEN r + 32 ELSE r

\* faulty variant: a case-sensitive comparison
EqualFold_Exact(s, t) == s = t

\* strings.EqualFold
EqualFold(s, t) ==
    /\ Len(s) = Len(t)
    /\ \A i \in 1..Len(s) : FoldRune(s[i]) = FoldRune(t[i])

\* the entry the lookup loop stops at, 0 for nil
FindEntry(entries, n) ==
    FirstIndex([i \in 1..Len(entries) |-> EqualFold(entries[i].name, n)])

\* faulty variant: <= in place of <
UsesMiniStream_Inclusive(entry, header) ==
    ~ULess(Uint64(header.MiniStreamCutoff), entry.streamSize)

\* streamSize < uint64(MiniStreamCutoff)
UsesMiniStream(entry, header) ==
    ULess(entry.streamSize, Uint64(header.MiniStreamCutoff))

\* the lookup, the choice of the path and the call of readChain
GetStreamLookup ==
    /\ pc = "getStream"
    /\ LET e == FindEntry(ole.dirEntries, name) IN
       /\ streamEntry' = e
       /\ IF e = 0
          THEN /\ err' = "stream not found"
               /\ pc' = "getStreamReturn"
               /\ UNCHANGED <<table, start, ret>>
          ELSE /\ err' = ""
               /\ start' = ole.dirEntries[e].startSector
               /\ pc' = "readChain"
               /\ IF UsesMiniStream(ole.dirEntries[e], ole.header)
                  THEN table' = ole.miniFat /\ ret' = "assembleMini"
                  ELSE table' = ole.fat /\ ret' = "assembleRegular"
    /\ out' = <<>>
    /\ UNCHANGED <<data, ole, rootStorage, chain, nextSector, name, caller>>

\* make([]byte, 0, n), the appended bytes, then [:n]: a buffer shorter than
\* n is resliced into its capacity, which make zeroed
Reslice(buf, n) ==
    IF Len(buf) >= n THEN SubSeq(buf, 1, n) ELSE buf \o Zeros(n - Len(buf))

\* the bytes or the error of one path (declared sizes below 2^24)
Assemble(store, ids, streamSize, msg) ==
    LET gathered == Gather(store, ids, <<>>) IN
    IF ~gathered.ok THEN [err |-> msg, out |-> <<>>]
    ELSE [err |-> "", out |-> Reslice(gathered.bytes, ToInt(streamSize))]

AssembleMini ==
    /\ pc = "assembleMini"
    /\ Fits(ole.dirEntries[streamEntry].streamSize)
    /\ LET r == Assemble(ole.miniSectors, chain,
                         ole.dirEntries[streamEntry].streamSize,
                         "invalid mini sector ID")
       IN  err' = r.err /\ out' = r.out
    /\ pc' = "getStreamReturn"
    /\ UNCHANGED <<data, ole, rootStorage, table, start, ret, chain, nextSector,
                   name, caller, streamEntry>>

AssembleRegular ==
    /\ pc = "assembleRegular"
    /\ Fits(ole.dirEntries[streamEntry].streamSize)
    /\ LET r == Assemble(ole.sectors, chain,
                         ole.dirEntries[streamEntry].streamSize,
                         "invalid sector ID")
       IN  err' = r.err /\ out' = r.out
    /\ pc' = "getStreamReturn"
    /\ UNCHANGED <<data, ole, rootStorage, table, start, ret, chain, nextSector,
                   name, caller, streamEntry>>

\* ConvertFile tries "Book" when "Workbook" failed
GetBook ==
    /\ pc = "getStreamReturn"
    /\ caller = "ConvertFile"
    /\ name = N_Workbook
    /\ err # ""
    /\ name' = N_Book
    /\ pc' = "getStream"
    /\ UNCHANGED <<data, ole, rootStorage, table, start, ret, chain, nextSector,
                   caller, streamEntry, out, err>>

\* ConvertFile prints the stream or returns the second error
Finish ==
    /\ pc = "getStreamReturn"
    /\ caller = "ConvertFile"
    /\ name = N_Book \/ err = ""
    /\ pc' = "done"
    /\ UNCHANGED <<data, ole, rootStorage, table, start, ret, chain, nextSector,
                   name, caller, streamEntry, out, err>>

Next ==
    \/ CheckSignature
    \/ ParseHeader
    \/ ReadFAT
    \/ ParseSectors
    \/ ReadChainStart
    \/ ReadChainLoop
    \/ ParseDirectory
    \/ FindRootStorage
    \/ ReadMiniFAT
    \/ ReadMiniStream
    \/ GetWorkbook
    \/ \E n \in Names : Resolve(n)
    \/ GetStreamLookup
    \/ AssembleMini
    \/ AssembleRegular
    \/ GetBook
    \/ Finish

Spec == Init /\ [][Next]_vars

\* ------------------------------------------------------------------------
\* Vocabulary of the properties
\* ------------------------------------------------------------------------
\* the error kind a returned error stands for
Kind(e) ==
    CASE e = "" -> "none"
      [] e = "file too small" -> "TruncatedInput"
      [] e \in {"signature not found", "invalid OLE2 signature"} -> "InvalidSignature"
      [] e \in {"error reading FAT sector", "invalid directory sector ID",
                "invalid mini sector ID", "invalid sector ID"} -> "CorruptStructure"
      [] e = "root storage not found" -> "MissingRootStorage"
      [] e = "stream not found" -> "StreamNotFound"
      [] OTHER -> "panic"

NoRepeat(s) == \A i, j \in 1..Len(s) : i # j => s[i] # s[j]

\* getStream has returned to its caller
Returned == pc = "getStreamReturn"

\* the concatenation of store[id] over ids that all lie in the store
ConcatOver(store, ids) == Concat([i \in 1..Len(ids) |-> store[ids[i] + 1]])

InStore(store, ids) == \A i \in 1..Len(ids) : ids[i] < Len(store)

FirstBytes(buf, n) == SubSeq(buf, 1, n)

\* the walk of a table as the format defines it: the indices from first on,
\* and how the walk ended
RECURSIVE WalkFrom(_, _, _)
WalkFrom(tbl, w, ids) ==
    IF w = END_OF_CHAIN THEN [ids |-> ids, end |-> "eoc"]
    ELSE IF ~Fits(w) \/ ToInt(w) >= Len(tbl) THEN [ids |-> ids, end |-> "range"]
    ELSE IF \E i \in 1..Len(ids) : ids[i] = ToInt(w) THEN [ids |-> ids, end |-> "cycle"]
    ELSE WalkFrom(tbl, tbl[ToInt(w) + 1], Append(ids, ToInt(w)))

Walk(tbl, first) == WalkFrom(tbl, first, <<>>)

\* a chain that ends on END_OF_CHAIN, inside the store, and holds n bytes
SoundChain(tbl, first, store, n) ==
    LET w == Walk(tbl, first) IN
    /\ w.end = "eoc"
    /\ InStore(store, w.ids)
    /\ Len(ConcatOver(store, w.ids)) >= n

\* the mini-stream and its mini-sectors as the format defines them: every
\* miniSectorSize bytes one mini-sector, a shorter last one included
MiniStreamOf(o, root) ==
    FirstBytes(ConcatOver(o.sectors, Walk(o.fat, o.dirEntries[root].startSector).ids),
               ToInt(o.dirEntries[root].streamSize))

CeilSplit(buf, size) ==
    [i \in 1..((Len(buf) + size - 1) \div size) |->
        SubSeq(buf, (i - 1) * size + 1, Min(i * size, Len(buf)))]

\* the stream entry e of a parsed container is well formed
ValidStream(o, root, e) ==
    LET entry == o.dirEntries[e]
        n == ToInt(entry.streamSize)
        rootEntry == o.dirEntries[root]
    IN  /\ Fits(entry.streamSize)
        /\ rootEntry.entryType = 5
        /\ Fits(rootEntry.streamSize)
        /\ SoundChain(o.fat, rootEntry.startSector, o.sectors,
                      ToInt(rootEntry.streamSize))
        /\ IF n < ToInt(o.header.MiniStreamCutoff)
           THEN /\ o.header.NumMiniFATSecs # <<0, 0, 0, 0>>
                /\ SoundChain(o.fat, o.header.FirstMiniFATSec, o.sectors, 0)
                /\ SoundChain(o.miniFat, entry.startSector,
                              CeilSplit(MiniStreamOf(o, root), o.miniSectorSize), n)
           ELSE SoundChain(o.fat, entry.startSector, o.sectors, n)

\* the bytes the format assigns to the stream entry e
StreamBytes(o, root, e) ==
    LET entry == o.dirEntries[e]
        n == ToInt(entry.streamSize)
    IN  IF n < ToInt(o.header.MiniStreamCutoff)
        THEN FirstBytes(ConcatOver(CeilSplit(MiniStreamOf(o, root), o.miniSectorSize),
                                   Walk(o.miniFat, entry.startSector).ids), n)
        ELSE FirstBytes(ConcatOver(o.sectors, Walk(o.fat, entry.startSector).ids), n)

\* ------------------------------------------------------------------------
\* C1: every chain walk terminates; on a cycle the walker stops as soon as
\* a sector index repeats and reports an error, so the chain it builds
\* never holds the same index twice.
\* ------------------------------------------------------------------------
C1_NoIndexTwice == NoRepeat(chain)

\* ------------------------------------------------------------------------
\* C2: for a valid container and a named stream entry of declared size n,
\* getStream returns without error exactly the first n bytes of the
\* concatenation, in chain order, of the sectors or mini-sectors of the
\* entry's chain.
\* ------------------------------------------------------------------------
C2_ResolveExact ==
    (Returned /\ streamEntry # 0 /\ ValidStream(ole, rootStorage, streamEntry))
        => (err = "" /\ out = StreamBytes(ole, rootStorage, streamEntry))

\* ------------------------------------------------------------------------
\* C3: when the bytes assembled from the chain are fewer than the declared
\* size, getStream reports CorruptStructureError and returns no padded
\* bytes.
\* ------------------------------------------------------------------------
AssembledLen ==
    LET store == IF ret = "assembleMini" THEN ole.miniSectors ELSE ole.sectors
    IN  Len(ConcatOver(store, chain))

C3_ShortIsError ==
    (/\ Returned /\ streamEntry # 0
     /\ InStore(IF ret = "assembleMini" THEN ole.miniSectors ELSE ole.sectors, chain)
     /\ AssembledLen < ToInt(ole.dirEntries[streamEntry].streamSize))
        => Kind(err) = "CorruptStructure"

\* ------------------------------------------------------------------------
\* C4: the path depends only on the declared size against the cutoff: a
\* size below the cutoff walks the mini FAT and reads mini-sectors, a size
\* of at least the cutoff walks the FAT and reads regular sectors.
\* ------------------------------------------------------------------------
Walking == pc \in {"readChain", "readChainLoop"} /\ ret \in {"assembleMini", "assembleRegular"}

C4_PathByCutoff ==
    LET n == ToInt(ole.dirEntries[streamEntry].streamSize)
        cutoff == ToInt(ole.header.MiniStreamCutoff)
    IN  /\ Walking =>
            /\ n < cutoff => (ret = "assembleMini" /\ table = ole.miniFat)
            /\ n >= cutoff => (ret = "assembleRegular" /\ table = ole.fat)
        /\ (Returned /\ streamEntry # 0 /\ err = "") =>
            /\ n < cutoff =>
                   /\ InStore(ole.miniSectors, chain)
                   /\ \A i \in 1..Min(n, Len(ConcatOver(ole.miniSectors, chain))) :
                          out[i] = ConcatOver(ole.miniSectors, chain)[i]
            /\ n >= cutoff =>
                   /\ InStore(ole.sectors, chain)
                   /\ \A i \in 1..Min(n, Len(ConcatOver(ole.sectors, chain))) :
                          out[i] = ConcatOver(ole.sectors, chain)[i]

C4_Witness ==
    /\ Returned /\ err = "" /\ streamEntry # 0
    /\ ToInt(ole.dirEntries[streamEntry].streamSize)
           = ToInt(ole.header.MiniStreamCutoff) - 1
    /\ ret = "assembleMini"
    /\ Len(chain) > 0
    /\ Len(out) = ToInt(ole.header.MiniStreamCutoff) - 1

\* ------------------------------------------------------------------------
\* C5: with zero mini-FAT sectors declared in the header, getStream of a
\* stream whose declared size is below the cutoff reports
\* CorruptStructureError.
\* ------------------------------------------------------------------------
C5_NoMiniFatIsError ==
    (/\ Returned /\ streamEntry # 0
     /\ ole.header.NumMiniFATSecs = <<0, 0, 0, 0>>
     /\ ToInt(ole.dirEntries[streamEntry].streamSize)
            < ToInt(ole.header.MiniStreamCutoff))
        => Kind(err) = "CorruptStructure"

\* ------------------------------------------------------------------------
\* C6: the root storage is the first record of object type 5, whatever
\* its name, and the parse fails with MissingRootStorageError exactly when
\* no record has object type 5.
\* ------------------------------------------------------------------------
HasType5 == \E i \in 1..Len(ole.dirEntries) : ole.dirEntries[i].entryType = 5

RootSearched == pc \notin {"ConvertFile", "parseOLE2", "readFAT", "parseSectors",
                           "readChain", "readChainLoop", "parseDirectory",
                           "findRoot", "done", "panic"}
                \/ (pc \in {"readChain", "readChainLoop"} /\ ret # "parseDirectory")

C6_RootByType ==
    /\ RootSearched => (rootStorage # 0 /\ ole.dirEntries[rootStorage].entryType = 5)
    /\ (pc = "done" /\ Kind(err) = "MissingRootStorage") => ~HasType5
    /\ (pc = "done" /\ Len(ole.dirEntries) > 0 /\ ~HasType5)
           => Kind(err) = "MissingRootStorage"

\* ------------------------------------------------------------------------
\* C7: a buffer shorter than 512 bytes yields TruncatedInputError whatever
\* its first bytes are; a buffer of at least 512 bytes whose first 8 bytes
\* are not the magic yields InvalidSignatureError with nothing built;
\* every other buffer gets its header decoded.
\* ------------------------------------------------------------------------
NothingBuilt ==
    /\ ole.fat = <<>> /\ ole.sectors = <<>> /\ ole.dirEntries = <<>>
    /\ ole.miniFat = <<>> /\ ole.miniSectors = <<>> /\ out = <<>>

HeaderStageOver == pc \notin {"ConvertFile", "parseOLE2"}

C7_HeaderOutcome ==
    HeaderStageOver =>
        /\ Len(data) < SECTOR_SIZE => (pc = "done" /\ Kind(err) = "TruncatedInput")
        /\ (Len(data) >= SECTOR_SIZE /\ SubSeq(data, 1, 8) # OLE2_SIGNATURE)
               => (pc = "done" /\ Kind(err) = "InvalidSignature" /\ NothingBuilt)
        /\ (Len(data) >= SECTOR_SIZE /\ SubSeq(data, 1, 8) = OLE2_SIGNATURE)
               => (ole.header = DecodeHeader(data)
                   /\ Kind(err) \notin {"TruncatedInput", "InvalidSignature"})

\* ------------------------------------------------------------------------
\* C8: getStream selects the lowest-indexed entry whose decoded name equals
\* the requested name ignoring letter case, and reports StreamNotFoundError
\* exactly when no entry matches.
\* ------------------------------------------------------------------------
IsUpper(r) == r >= 65 /\ r <= 90
IsLower(r) == r >= 97 /\ r <= 122

SameLetter(a, b) ==
    \/ a = b
    \/ IsUpper(a) /\ IsLower(b) /\ b - a = 32
    \/ IsLower(a) /\ IsUpper(b) /\ a - b = 32

SameIgnoringCase(s, t) ==
    Len(s) = Len(t) /\ \A i \in 1..Len(s) : SameLetter(s[i], t[i])

MatchingEntries == {i \in 1..Len(ole.dirEntries) :
                        SameIgnoringCase(ole.dirEntries[i].name, name)}

LookupDone == pc \in {"getStreamReturn"}
              \/ (pc \in {"readChain", "readChainLoop"}
                  /\ ret \in {"assembleMini", "assembleRegular"})

C8_FirstMatchIgnoringCase ==
    LookupDone =>
        /\ streamEntry # 0 =>
               /\ streamEntry \in MatchingEntries
               /\ \A i \in MatchingEntries : streamEntry <= i
        /\ streamEntry = 0 <=> MatchingEntries = {}
        /\ (Returned /\ Kind(err) = "StreamNotFound") <=> (Returned /\ MatchingEntries = {})

C8_Witness ==
    /\ Returned /\ streamEntry = 3
    /\ name = N_WORKBOOK
    /\ ole.dirEntries[3].name = N_Workbook
    /\ ole.dirEntries[2].name # N_Workbook
    /\ err = ""

\* ------------------------------------------------------------------------
\* C9: records of object type "unused" keep their position in the entry
\* list, and getStream never selects one: a name matching only unused
\* records is not found, and an unused record before a matching stream
\* record does not win.
\* ------------------------------------------------------------------------
DirectoryParsed == pc \notin {"ConvertFile", "parseOLE2", "readFAT", "parseSectors",
                              "parseDirectory", "done", "panic"}
                   /\ ~(pc \in {"readChain", "readChainLoop"} /\ ret = "parseDirectory")

\* the directory stream: the sectors of the chain from FirstDirSector
DirStream == ConcatOver(ole.sectors, Walk(ole.fat, ole.header.FirstDirSector).ids)

C9_UnusedNotSelected ==
    /\ DirectoryParsed =>
           /\ Len(ole.dirEntries) = Len(DirStream) \div 128
           /\ \A i \in 1..Len(ole.dirEntries) :
                  ole.dirEntries[i].entryType = DirStream[128 * (i - 1) + 65]
    /\ (LookupDone /\ streamEntry # 0) => ole.dirEntries[streamEntry].entryType # 0

\* ------------------------------------------------------------------------
\* C10: the allocation table is the concatenation, in ascending slot order,
\* of the sectorSize/4 32-bit entries of the sector each non-FREE inline
\* DIFAT slot names; FREE slots contribute nothing.
\* ------------------------------------------------------------------------
FatBuilt == pc \notin {"ConvertFile", "parseOLE2", "readFAT", "done", "panic"}

SlotAt(i) == SubSeq(data, 76 + 4 * (i - 1) + 1, 76 + 4 * i)

C10_FatIsSlotOrder ==
    FatBuilt =>
        LET n == ole.sectorSize \div 4
            used == {i \in 1..DIFAT_SLOTS : SlotAt(i) # FREE}
        IN  /\ Len(ole.fat) = n * Cardinality(used)
            /\ \A i \in used :
                   LET rank == Cardinality({j \in used : j < i})
                       base == 512 + ToInt(SlotAt(i)) * ole.sectorSize
                   IN  SubSeq(ole.fat, rank * n + 1, rank * n + n)
                           = [j \in 1..n |-> SubSeq(data, base + 4 * (j - 1) + 1, base + 4 * j)]

C10_Witness ==
    /\ FatBuilt
    /\ SlotAt(1) = <<0, 0, 0, 0>> /\ SlotAt(2) = FREE /\ SlotAt(3) = <<8, 0, 0, 0>>
    /\ Len(ole.fat) = 64
    /\ ole.fat[34] = <<5, 0, 0, 0>>

\* ------------------------------------------------------------------------
\* C11: readChain returns the empty sequence when start is END_OF_CHAIN or
\* no index of the table; otherwise the result begins with start, every
\* later element is the table entry of the element before it, every
\* element is an index of the table, and the result ends at the first
\* element whose table entry is END_OF_CHAIN or no index of the table.
\* ------------------------------------------------------------------------
ChainReturned == pc \in {"parseDirectory", "readMiniFAT", "readMiniStream",
                         "assembleMini", "assembleRegular"}

\* the 32-bit word w is an index of a table of n entries
IsIndex(w, n) == \E k \in 0..(n - 1) : w = LE(k, 4)

C11_WalkShape ==
    ChainReturned =>
        LET n == Len(table)
            last == Len(chain)
        IN  IF start = END_OF_CHAIN \/ ~IsIndex(start, n)
            THEN chain = <<>>
            ELSE /\ last >= 1
                 /\ LE(chain[1], 4) = start
                 /\ \A i \in 1..last : chain[i] \in 0..(n - 1)
                 /\ \A i \in 1..(last - 1) : table[chain[i] + 1] = LE(chain[i + 1], 4)
                 /\ ~IsIndex(table[chain[last] + 1], n)

C11_Witness ==
    /\ pc = "assembleRegular"
    /\ chain = <<6>>
    /\ table[7] = <<99, 0, 0, 0>>
    /\ Len(table) = 32

\* ------------------------------------------------------------------------
\* C12: while parseOLE2 builds the directory stream and the mini FAT, a
\* chain that ends early on an out-of-range table value, or that names a
\* sector beyond the sector store, makes the parse return
\* CorruptStructureError: the parse neither goes on with a shortened
\* directory or mini FAT nor panics.
\* ------------------------------------------------------------------------
\* the chain from first ends on a value that is no index, or leaves the store
BrokenChain(first) ==
    LET w == Walk(ole.fat, first) IN
    \/ w.end = "range" /\ Len(w.ids) >= 1
    \/ ~InStore(ole.sectors, w.ids)

\* the directory stream has been gathered (or the attempt has failed)
DirStageOver ==
    /\ Len(ole.sectors) > 0
    /\ pc \notin {"parseSectors", "parseDirectory"}
    /\ ~(pc \in {"readChain", "readChainLoop"} /\ ret = "parseDirectory")

\* the mini FAT has been gathered (or the attempt has failed)
MiniFatStageOver ==
    /\ ole.header.NumMiniFATSecs # <<0, 0, 0, 0>>
    /\ \/ ret = "readMiniFAT" /\ pc = "panic"
       \/ ret \in {"readMiniStream", "assembleMini", "assembleRegular"}

ParseRejected == pc = "done" /\ Kind(err) = "CorruptStructure"

C12_BuildChainsChecked ==
    /\ (DirStageOver /\ BrokenChain(ole.header.FirstDirSector)) => ParseRejected
    /\ (MiniFatStageOver /\ BrokenChain(ole.header.FirstMiniFATSec)) => ParseRejected

\* ------------------------------------------------------------------------
\* C13: the mini-stream (the content of the root entry's regular chain cut
\* to the root entry's declared size, L bytes) is split into
\* ceil(L / miniSectorSize) mini-sectors that together hold all L bytes:
\* each but the last has miniSectorSize bytes, and a shorter last
\* mini-sector is kept.
\* ------------------------------------------------------------------------
MiniSplitDone == pc \in {"parsed", "getStream", "getStreamReturn"}

\* the content of the root entry's chain, cut to the declared size
RootMiniStream ==
    LET root == ole.dirEntries[rootStorage]
        content == ConcatOver(ole.sectors, Walk(ole.fat, root.startSector).ids)
    IN  FirstBytes(content, Min(ToInt(root.streamSize), Len(content)))

C13_MiniSectorsCoverStream ==
    (MiniSplitDone /\ Fits(ole.dirEntries[rootStorage].streamSize)) =>
        LET L == Len(RootMiniStream)
            size == ole.miniSectorSize
            count == Len(ole.miniSectors)
        IN  /\ count = (L + size - 1) \div size
            /\ Concat(ole.miniSectors) = RootMiniStream
            /\ \A i \in 1..(count - 1) : Len(ole.miniSectors[i]) = size

====
